---- MODULE Spec2Model ----
(***************************************************************************)
(* A model of final_app.py: the directory lister, the header schema        *)
(* extractor, the file-resolution callback process_selected_file, the      *)
(* chart callback update_charts, and the module-level session state        *)
(* (uploaded_df, timestamp_column) they share.                             *)
(***************************************************************************)
EXTENDS Integers, Sequences, FiniteSets, TLC

VARIABLES
    uploaded_df,        \* global DataFrame of the session (final_app.py:217, 267)
    timestamp_column,   \* global timestamp column name (final_app.py:159, 207)
    ret,                \* what the most recent callback returned, or that it raised
    pc,                 \* per thread: the position of a callback run on a thread
    loc,                \* per thread: the callback's local variables
    input,              \* argument of a pure function under check
    output              \* its result

vars == <<uploaded_df, timestamp_column, ret, pc, loc, input, output>>

(***************************************************************************)
(* Bounds of the model.                                                    *)
(***************************************************************************)
MaxCols == 2        \* declared column lines per header
MaxRows == 3        \* data lines per file
MaxAnchors == 2     \* anchors per listing
MaxHrefLen == 3     \* atoms per anchor target
MaxQueryRows == 2   \* data lines per file in the query specification
MaxHeaderLines == 3 \* lines of a header given to extract_column_names
MaxFields == 3      \* tokens of a sample data line

BoundedSeq(S, n) == UNION {[1..k -> S] : k \in 0..n}

(***************************************************************************)
(* Python values.                                                          *)
(***************************************************************************)
None == "<None>"

\* Truth value of an optional string: None and "" are falsy.
Truthy(x) == x # None /\ x # ""

\* f"{a}_{n}"
Suffixed(a, n) == a \o "_" \o ToString(n)

(***************************************************************************)
(* Lines of a fetched file.  A line is described by what the code asks of  *)
(* it: the literal prefix its trimmed text starts with, whether it holds a *)
(* colon, the text between the first colon and the first comma, and its    *)
(* whitespace-separated tokens.                                            *)
(***************************************************************************)
T1a == "20230101T000000.0Z"
T1b == "20230101T000000.00Z"
T1n == "20230101T120000.0Z"
T2 == "20230102T000000.0Z"
TBad == "2024-01-01"
Num == "1013.2"

\* str.startswith("202") of a token
StartsWith202(tok) == tok \in {T1a, T1b, T1n, T2, TBad}

ColumnLine(name) ==
    [prefix |-> "Column", colon |-> TRUE, name |-> name, tokens |-> <<"Column", name>>]
FromLine ==
    [prefix |-> "From", colon |-> TRUE, name |-> "file", tokens |-> <<"From", "file">>]
NoColonLine ==
    [prefix |-> "Column", colon |-> FALSE, name |-> "", tokens |-> <<"Column", "names">>]
DataLine(tokens) ==
    [prefix |-> IF StartsWith202(tokens[1]) THEN "202" ELSE "",
     colon |-> FALSE, name |-> "", tokens |-> tokens]

\* line.strip().startswith(marker)
StartsWith(line, marker) == line.prefix = marker

(***************************************************************************)
(* extract_column_names                                                    *)
(***************************************************************************)
EmptyDict == [k \in {} |-> 0]

RECURSIVE ExtractLoop(_, _, _)
ExtractLoop(lines, seen_names, column_names) ==
    IF lines = <<>> THEN column_names
    ELSE LET line == Head(lines) IN
         IF StartsWith(line, "Column") /\ ~StartsWith(line, "From") /\ line.colon
         THEN LET base_name == line.name IN
              IF base_name \in DOMAIN seen_names
              THEN LET n == seen_names[base_name] + 1 IN
                   ExtractLoop(Tail(lines),
                               [seen_names EXCEPT ![base_name] = n],
                               Append(column_names, Suffixed(base_name, n)))
              ELSE ExtractLoop(Tail(lines),
                               seen_names @@ (base_name :> 0),
                               Append(column_names, base_name))
         ELSE ExtractLoop(Tail(lines), seen_names, column_names)

extract_column_names(file_content) == ExtractLoop(file_content, EmptyDict, <<>>)

(***************************************************************************)
(* Schema reconciliation (the padding of column_names)                     *)
(***************************************************************************)
\* len(sample_row.split())
FieldCount(line) == Len(line.tokens)

ReconcileFromZero(column_names, actual_field_count) ==
    IF Len(column_names) < actual_field_count
    THEN column_names \o
         [i \in 1..(actual_field_count - Len(column_names)) |-> Suffixed("Unnamed", i - 1)]
    ELSE column_names

Reconcile(column_names, actual_field_count) ==
    IF Len(column_names) < actual_field_count
    THEN column_names \o
         [i \in 1..(actual_field_count - Len(column_names)) |->
             Suffixed("Unnamed", Len(column_names) + i - 1)]
    ELSE column_names

(***************************************************************************)
(* list_items                                                              *)
(***************************************************************************)
\* An anchor target is a sequence of atoms: the characters "." and "/" and
\* whole words.
Atoms == {".", "/", "operationfiles", "javascript", "a"}

\* str.startswith(p)
HasPrefix(s, p) == Len(s) >= Len(p) /\ SubSeq(s, 1, Len(p)) = p

ParentRef == <<".", ".", "/">>
GrandParentRef == <<".", ".", "/", ".", ".", "/">>

\* the condition of the if in the loop of list_items
IsEntry(href) ==
    /\ HasPrefix(href, <<".", "/">>)
    /\ ~ \/ HasPrefix(href, ParentRef)
         \/ HasPrefix(href, GrandParentRef)
         \/ HasPrefix(href, <<"javascript">>)
         \/ HasPrefix(href, <<"operationfiles">>)

\* str.lstrip("./"): drops every leading character that is "." or "/"
RECURSIVE LStrip(_)
LStrip(s) == IF s # <<>> /\ Head(s) \in {".", "/"} THEN LStrip(Tail(s)) ELSE s

\* str.rstrip("/")
RECURSIVE RStrip(_)
RStrip(s) == IF s # <<>> /\ s[Len(s)] = "/" THEN RStrip(SubSeq(s, 1, Len(s) - 1)) ELSE s

RECURSIVE ItemsOf(_)
ItemsOf(hrefs) ==
    IF hrefs = <<>> THEN <<>>
    ELSE IF IsEntry(Head(hrefs))
         THEN <<RStrip(LStrip(Head(hrefs)))>> \o ItemsOf(Tail(hrefs))
         ELSE ItemsOf(Tail(hrefs))

\* response: [ok |-> the GET succeeded, hrefs |-> the anchors' targets in order]
list_items(response) == IF response.ok THEN ItemsOf(response.hrefs) ELSE <<>>

(***************************************************************************)
(* Cell values and DataFrames.  A DataFrame is its column labels and its   *)
(* rows; a row keeps its index label (its position among the parsed data   *)
(* lines) and one cell per column.                                         *)
(***************************************************************************)
Str(tok) == [kind |-> "str", s |-> tok, t |-> 0]
NaN == [kind |-> "NaN", s |-> "", t |-> 0]
NaT == [kind |-> "NaT", s |-> "", t |-> 0]
Datetime(t) == [kind |-> "datetime", s |-> "", t |-> t]

\* pd.DataFrame()
EmptyFrame == [columns |-> <<>>, rows |-> <<>>]

\* The global uploaded_df is bound by the __main__ block alone: in a process
\* that imports the module (a WSGI server given `server`) the name is unbound
\* until a file is resolved.
Unbound == [unbound |-> TRUE]
IsBound(df) == "unbound" \notin DOMAIN df

\* DataFrame.empty
Empty(df) == Len(df.columns) = 0 \/ Len(df.rows) = 0

HasColumn(df, name) == \E i \in 1..Len(df.columns) : df.columns[i] = name
ColumnIndex(df, name) == CHOOSE i \in 1..Len(df.columns) : df.columns[i] = name

\* Instants, in half days since 2022-12-31T00:00, that the format
\* "%Y%m%dT%H%M%S.%fZ" reads from a token.
StampTable == (T1a :> 2) @@ (T1b :> 2) @@ (T1n :> 3) @@ (T2 :> 4)

\* pd.to_datetime(cell, format="%Y%m%dT%H%M%S.%fZ", errors="coerce")
to_datetime(cell) ==
    IF cell.kind = "str" /\ cell.s \in DOMAIN StampTable
    THEN Datetime(StampTable[cell.s])
    ELSE NaT

\* The dates a DatePickerRange hands over, and pd.to_datetime of them.
Dates == {"2023-01-01", "2023-01-02"}
DateTable == ("2023-01-01" :> 2) @@ ("2023-01-02" :> 4)
date_to_datetime(date) == Datetime(DateTable[date])

(***************************************************************************)
(* pd.read_csv(..., delim_whitespace=True, names=column_names,             *)
(*             on_bad_lines="skip")                                        *)
(***************************************************************************)
HasDuplicates(names) == \E i, j \in 1..Len(names) : i < j /\ names[i] = names[j]

PadCells(tokens, n) == [k \in 1..n |-> IF k <= Len(tokens) THEN Str(tokens[k]) ELSE NaN]

\* A line with more fields than names is skipped; a shorter one is padded.
RECURSIVE ReadRows(_, _, _)
ReadRows(lines, n, next_index) ==
    IF lines = <<>> THEN <<>>
    ELSE IF FieldCount(Head(lines)) > n
         THEN ReadRows(Tail(lines), n, next_index)
         ELSE <<[index |-> next_index, cells |-> PadCells(Head(lines).tokens, n)]>>
              \o ReadRows(Tail(lines), n, next_index + 1)

read_csv(data_section, names) ==
    [columns |-> names, rows |-> ReadRows(data_section, Len(names), 0)]

(***************************************************************************)
(* Timestamp normalisation, de-duplication and ordering                    *)
(***************************************************************************)
\* df[col] = pd.to_datetime(df[col], ...)
AssignDatetime(rows, k) ==
    [i \in 1..Len(rows) |->
        [rows[i] EXCEPT !.cells = [rows[i].cells EXCEPT ![k] = to_datetime(rows[i].cells[k])]]]

KeepLast(rows, k) ==
    LET keep(i) == \A j \in (i + 1)..Len(rows) : rows[j].cells[k] # rows[i].cells[k]
    IN SelectSeq([i \in 1..Len(rows) |-> [pos |-> i, row |-> rows[i]]],
                 LAMBDA e : keep(e.pos))

\* df.drop_duplicates(subset=[col]): the first row of each value stays
KeepFirst(rows, k) ==
    LET keep(i) == \A j \in 1..(i - 1) : rows[j].cells[k] # rows[i].cells[k]
    IN SelectSeq([i \in 1..Len(rows) |-> [pos |-> i, row |-> rows[i]]],
                 LAMBDA e : keep(e.pos))

drop_duplicates_last(rows, k) ==
    LET kept == KeepLast(rows, k) IN [i \in 1..Len(kept) |-> kept[i].row]

drop_duplicates(rows, k) ==
    LET kept == KeepFirst(rows, k) IN [i \in 1..Len(kept) |-> kept[i].row]

\* a sorts strictly before b: ascending, NaT last (na_position="last")
SortsBefore(a, b) == a.kind = "datetime" /\ (b.kind = "NaT" \/ a.t < b.t)

RECURSIVE Insert(_, _, _)
Insert(r, sorted, k) ==
    IF sorted = <<>> THEN <<r>>
    ELSE IF SortsBefore(r.cells[k], Head(sorted).cells[k])
         THEN <<r>> \o sorted
         ELSE <<Head(sorted)>> \o Insert(r, Tail(sorted), k)

\* df.sort_values(by=col)
RECURSIVE sort_values(_, _)
sort_values(rows, k) ==
    IF rows = <<>> THEN <<>> ELSE Insert(Head(rows), sort_values(Tail(rows), k), k)

(***************************************************************************)
(* Timestamp column resolution                                             *)
(***************************************************************************)
possible_timestamp_columns == <<"Timestamp", "UT date and time for measurement center">>

InList(x, list) == \E i \in 1..Len(list) : list[i] = x

FirstIn(list, wanted) ==
    LET hits == {i \in 1..Len(list) : InList(list[i], wanted)}
    IN IF hits = {} THEN None
       ELSE list[CHOOSE i \in hits : \A j \in hits : i <= j]

ResolveByAllowList(column_names) == FirstIn(possible_timestamp_columns, column_names)

\* next((col for col in column_names if col in possible_timestamp_columns), None)
ResolveTimestampColumn(column_names) == FirstIn(column_names, possible_timestamp_columns)

(***************************************************************************)
(* process_selected_file                                                   *)
(***************************************************************************)
\* A file selection is [selected |-> file_url is set, ok |-> the GET
\* succeeded, lines |-> the decoded content, split into lines].
Loaded == "Loaded file"
NoData == "No valid data found in the file."
NoTimestamp == "No valid timestamp column found in the file."
LoadError == "Error loading file"
NoFile == "No file selected."

\* for i, line in enumerate(data): if line.strip().startswith("202"): the
\* index of the first such line, 0 when the loop runs to its else
DataStart(data) ==
    LET hits == {i \in 1..Len(data) : StartsWith(data[i], "202")}
    IN IF hits = {} THEN 0 ELSE CHOOSE i \in hits : \A j \in hits : i <= j

\* [col for col in column_names if col != timestamp_column]
NumericColumns(column_names, ts) == SelectSeq(column_names, LAMBDA col : col # ts)

\* df[ts] = pd.to_datetime(...); df.drop_duplicates(...); df.sort_values(...)
Normalize(df, ts) ==
    LET k == ColumnIndex(df, ts)
    IN [df EXCEPT !.rows = sort_values(drop_duplicates(AssignDatetime(df.rows, k), k), k)]

Returned(status, options) ==
    [status |-> status, options |-> options,
     assigns_timestamp |-> FALSE, timestamp |-> None,
     assigns_df |-> FALSE, df |-> EmptyFrame]

\* The callback body up to the DataFrame it builds (lines 172-203): an early
\* return, or the reconciled names and the parsed table.
Built(file) ==
    IF ~file.selected THEN [status |-> NoFile, column_names |-> <<>>, df |-> EmptyFrame]
    ELSE IF ~file.ok THEN [status |-> LoadError, column_names |-> <<>>, df |-> EmptyFrame]
    ELSE LET data == file.lines
             start == DataStart(data)
         IN IF start = 0
            THEN [status |-> NoData, column_names |-> <<>>, df |-> EmptyFrame]
            ELSE LET data_section == SubSeq(data, start, Len(data))
                     column_names == Reconcile(extract_column_names(data),
                                               FieldCount(data_section[1]))
                 IN IF HasDuplicates(column_names)   \* read_csv raises ValueError
                    THEN [status |-> LoadError, column_names |-> <<>>, df |-> EmptyFrame]
                    ELSE [status |-> "built", column_names |-> column_names,
                          df |-> read_csv(data_section, column_names)]

\* One run of the callback body: the status and options it returns, and the
\* assignments to the globals it performs on the way.
Resolution(file) ==
    LET b == Built(file)
    IN IF b.status # "built" THEN Returned(b.status, <<>>)
       ELSE LET ts == ResolveTimestampColumn(b.column_names)
            IN IF ~Truthy(ts)
               THEN [Returned(NoTimestamp, <<>>) EXCEPT
                        !.assigns_timestamp = TRUE, !.timestamp = ts]
               ELSE [status |-> Loaded,
                     options |-> NumericColumns(b.column_names, ts),
                     assigns_timestamp |-> TRUE, timestamp |-> ts,
                     assigns_df |-> TRUE, df |-> Normalize(b.df, ts)]

FileReturn(status, options) ==
    [kind |-> "file", status |-> status, options1 |-> options, options2 |-> options]

process_selected_file(file) ==
    \E r \in {Resolution(file)} :
       /\ timestamp_column' = IF r.assigns_timestamp THEN r.timestamp ELSE timestamp_column
       /\ uploaded_df' = IF r.assigns_df THEN r.df ELSE uploaded_df
       /\ ret' = FileReturn(r.status, r.options)

(***************************************************************************)
(* update_charts                                                           *)
(***************************************************************************)
NoDataFigure == [title |-> "No Data Available", x |-> None, y |-> None, rows |-> <<>>]

\* cell >= bound, cell <= bound on datetimes: a comparison with NaT is False
Geq(cell, bound) == cell.kind = "datetime" /\ cell.t >= bound.t
Leq(cell, bound) == cell.kind = "datetime" /\ cell.t <= bound.t
Lt(cell, bound) == cell.kind = "datetime" /\ cell.t < bound.t

FilterExclusiveEnd(df, ts, start_date, end_date) ==
    IF Truthy(start_date) /\ Truthy(end_date)
    THEN LET k == ColumnIndex(df, ts)
         IN [df EXCEPT !.rows =
                SelectSeq(df.rows, LAMBDA r : /\ Geq(r.cells[k], date_to_datetime(start_date))
                                              /\ Lt(r.cells[k], date_to_datetime(end_date)))]
    ELSE df

\* if start_date and end_date: df = df[(df[ts] >= ...) & (df[ts] <= ...)]
FilterByDateRange(df, ts, start_date, end_date) ==
    IF Truthy(start_date) /\ Truthy(end_date)
    THEN LET k == ColumnIndex(df, ts)
         IN [df EXCEPT !.rows =
                SelectSeq(df.rows, LAMBDA r : /\ Geq(r.cells[k], date_to_datetime(start_date))
                                              /\ Leq(r.cells[k], date_to_datetime(end_date)))]
    ELSE df

\* px.line(df, x=ts, y=column, title=...) raises ValueError when x or y names
\* no column of df
LineRaises(df, ts, column) == ~HasColumn(df, ts) \/ ~HasColumn(df, column)
Line(df, ts, column, chart) ==
    [title |-> chart \o ": " \o column \o " Over Time", x |-> ts, y |-> column,
     rows |-> df.rows]

Charts(args, fig1, fig2) ==
    [kind |-> "charts", args |-> args, raised |-> None, fig1 |-> fig1, fig2 |-> fig2]
Raised(args, error) ==
    [kind |-> "charts", args |-> args, raised |-> error,
     fig1 |-> NoDataFigure, fig2 |-> NoDataFigure]

\* The run of update_charts on the given values of the two globals.
ChartsOf(df0, ts, args) ==
    IF ~IsBound(df0) THEN Raised(args, "NameError")
    ELSE IF Empty(df0) \/ ~Truthy(ts) THEN Charts(args, NoDataFigure, NoDataFigure)
    ELSE IF Truthy(args.start_date) /\ Truthy(args.end_date) /\ ~HasColumn(df0, ts)
    THEN Raised(args, "KeyError")
    ELSE LET df == FilterByDateRange(df0, ts, args.start_date, args.end_date)
         IN IF Truthy(args.column1) /\ LineRaises(df, ts, args.column1)
            THEN Raised(args, "ValueError")
            ELSE IF Truthy(args.column2) /\ LineRaises(df, ts, args.column2)
            THEN Raised(args, "ValueError")
            ELSE Charts(args,
                        IF Truthy(args.column1) THEN Line(df, ts, args.column1, "Chart 1")
                                                ELSE NoDataFigure,
                        IF Truthy(args.column2) THEN Line(df, ts, args.column2, "Chart 2")
                                                ELSE NoDataFigure)

update_charts(column1, column2, start_date, end_date) ==
    /\ ret' = ChartsOf(uploaded_df, timestamp_column,
                       [column1 |-> column1, column2 |-> column2,
                        start_date |-> start_date, end_date |-> end_date])
    /\ UNCHANGED <<uploaded_df, timestamp_column>>

(***************************************************************************)
(* The files on the server and the values the widgets hand over            *)
(***************************************************************************)
UTLabel == "UT date and time for measurement center"
DeclaredNames == {"Timestamp", UTLabel, "P", "Unnamed_1"}

File(lines) == [selected |-> TRUE, ok |-> TRUE, lines |-> lines]
NoSelection == [selected |-> FALSE, ok |-> FALSE, lines |-> <<>>]
FetchFailed == [selected |-> TRUE, ok |-> FALSE, lines |-> <<>>]

Header(names) == [i \in 1..Len(names) |-> ColumnLine(names[i])]
Rows(rows) == [i \in 1..Len(rows) |-> DataLine(rows[i])]

\* files that vary in their header, over at most one data line
HeaderFiles ==
    {File(Header(h) \o Rows(d)) :
        h \in BoundedSeq(DeclaredNames, MaxCols),
        d \in {<<>>, <<<<T1a>>>>, <<<<T1a, Num>>>>}}

\* files that vary in their data lines, with the timestamp first or second
RowKinds == {<<T1a>>, <<T1b>>, <<T2>>, <<TBad>>, <<T2, Num>>}
RowFiles ==
    {File(Header(h) \o Rows(d)) :
        h \in {<<"Timestamp">>, <<"P", "Timestamp">>},
        d \in BoundedSeq(RowKinds, MaxRows)}

LoadFiles == HeaderFiles \cup RowFiles \cup {NoSelection, FetchFailed}

QueryRowKinds == {<<T1a, Num>>, <<T2, Num>>, <<TBad, Num>>}
QueryFiles ==
    {File(Header(<<"Timestamp", "P">>) \o Rows(d)) : d \in BoundedSeq(QueryRowKinds, MaxQueryRows)}
    \cup {File(Header(<<"P">>) \o Rows(<<<<T1a>>>>)), NoSelection, FetchFailed}

\* the session a file is selected in: fresh, or after one of these
PriorFiles ==
    {File(Header(<<"Timestamp", "P">>) \o Rows(<<<<T2, Num>>, <<T1a, Num>>>>)),
     File(Header(<<"P">>) \o Rows(<<<<T1a>>>>))}

QueryColumns == {None, "P", "Q"}
QueryDates == Dates \cup {None}

(***************************************************************************)
(* Specifications                                                          *)
(***************************************************************************)
NoThreads == [t \in {} |-> "idle"]
Unused == "unused"

\* the state after start-up: timestamp_column = None, and uploaded_df =
\* pd.DataFrame() when the module is run as __main__, unbound when imported
InitSession ==
    /\ uploaded_df \in {EmptyFrame, Unbound}
    /\ timestamp_column = None
    /\ ret = [kind |-> "none"]

Init ==
    /\ InitSession
    /\ pc = NoThreads /\ loc = NoThreads
    /\ input = Unused /\ output = Unused

\* the session as the dashboard drives it, one callback at a time
SelectFile == \E file \in QueryFiles : process_selected_file(file)

UpdateCharts ==
    \E column1 \in QueryColumns, column2 \in QueryColumns,
       start_date \in QueryDates, end_date \in QueryDates :
        update_charts(column1, column2, start_date, end_date)

Next ==
    \/ SelectFile /\ UNCHANGED <<pc, loc, input, output>>
    \/ UpdateCharts /\ UNCHANGED <<pc, loc, input, output>>

Spec == Init /\ [][Next]_vars

\* one file of a wider set, selected in a fresh session or after a prior file
InitSelect ==
    /\ InitSession
    /\ pc = NoThreads /\ loc = NoThreads
    /\ input \in LoadFiles /\ output = "pending"

SelectPrior ==
    /\ output = "pending"
    /\ \E file \in PriorFiles : process_selected_file(file)
    /\ UNCHANGED <<pc, loc, input, output>>

SelectInput ==
    /\ process_selected_file(input)
    /\ output' = "selected"
    /\ UNCHANGED <<pc, loc, input>>

NextSelect == SelectPrior \/ SelectInput

SpecSelect == InitSelect /\ [][NextSelect]_vars

\* extract_column_names applied to a header
ExtractLines == {ColumnLine("A"), ColumnLine("A_1"), ColumnLine("B"), FromLine, NoColonLine}

Pending == [done |-> FALSE]
Done(value) == [done |-> TRUE, value |-> value]

InitPure(inputs) ==
    /\ uploaded_df = EmptyFrame /\ timestamp_column = None /\ ret = [kind |-> "none"]
    /\ pc = NoThreads /\ loc = NoThreads
    /\ input \in inputs /\ output = Pending

Apply(value) ==
    /\ ~output.done
    /\ output' = Done(value)
    /\ UNCHANGED <<uploaded_df, timestamp_column, ret, pc, loc, input>>

InitExtract == InitPure(BoundedSeq(ExtractLines, MaxHeaderLines))
Extract == Apply(extract_column_names(input))
SpecExtract == InitExtract /\ [][Extract]_vars

\* the reconciliation applied to declared names and a first data line
SampleRows == {DataLine(t) : t \in BoundedSeq({T1a, Num}, MaxFields) \ {<<>>}}
InitReconcile == InitPure([column_names : BoundedSeq(DeclaredNames, MaxCols), sample_row : SampleRows])
ReconcileStep == Apply(Reconcile(input.column_names, FieldCount(input.sample_row)))
SpecReconcile == InitReconcile /\ [][ReconcileStep]_vars

\* list_items applied to a listing
Hrefs == BoundedSeq(Atoms, MaxHrefLen)
Listings ==
    {[ok |-> TRUE, hrefs |-> h] : h \in BoundedSeq(Hrefs, MaxAnchors)}
    \cup {[ok |-> FALSE, hrefs |-> <<>>]}
InitList == InitPure(Listings)
ListItems == Apply(list_items(input))
SpecList == InitList /\ [][ListItems]_vars

(***************************************************************************)
(* The callbacks on threads.  The development server runs each callback on *)
(* a thread of its own; a step is the work up to and including one read or *)
(* write of a global.                                                      *)
(***************************************************************************)
Writers == {"w1", "w2"}     \* threads that run process_selected_file
Readers == {"r"}            \* a thread that runs update_charts
Unread == "<unread>"

ThreadFiles ==
    {File(Header(<<"Timestamp", "P">>) \o Rows(<<<<T2, Num>>, <<T1a, Num>>>>)),
     File(Header(<<UTLabel, "P">>) \o Rows(<<<<T1a, Num>>>>)),
     FetchFailed}
ThreadArgs ==
    {[column1 |-> "P", column2 |-> "P", start_date |-> "2023-01-01",
      end_date |-> "2023-01-02"]}

Local0 ==
    [args |-> None, column_names |-> <<>>, df |-> EmptyFrame, name |-> Unread,
     values |-> <<>>, fig1 |-> NoDataFigure]

Goto(t, label, l) ==
    /\ pc' = [pc EXCEPT ![t] = label]
    /\ loc' = [loc EXCEPT ![t] = l]
    /\ UNCHANGED <<ret, input, output>>

Return(t, value) ==
    /\ pc' = [pc EXCEPT ![t] = "idle"]
    /\ loc' = [loc EXCEPT ![t] = Local0]
    /\ ret' = value
    /\ UNCHANGED <<input, output>>

\* df[name] = values: replaces the column, or appends a new one
SetColumn(df, name, values) ==
    IF HasColumn(df, name)
    THEN [df EXCEPT !.rows = [i \in 1..Len(df.rows) |->
            [df.rows[i] EXCEPT !.cells[ColumnIndex(df, name)] = values[i]]]]
    ELSE [columns |-> Append(df.columns, name),
          rows |-> [i \in 1..Len(df.rows) |->
            [df.rows[i] EXCEPT !.cells = Append(df.rows[i].cells, values[i])]]]

\* lines 172-203
W_Begin(t, file) ==
    /\ pc[t] = "idle"
    /\ \E b \in {Built(file)} :
         IF b.status # "built"
         THEN Return(t, FileReturn(b.status, <<>>))
         ELSE Goto(t, "L207", [Local0 EXCEPT !.column_names = b.column_names, !.df = b.df])
    /\ UNCHANGED <<uploaded_df, timestamp_column>>

\* line 207: timestamp_column = next(...)
W_L207(t) ==
    /\ pc[t] = "L207"
    /\ timestamp_column' = ResolveTimestampColumn(loc[t].column_names)
    /\ Goto(t, "L208", loc[t])
    /\ UNCHANGED uploaded_df

\* line 208: if not timestamp_column
W_L208(t) ==
    /\ pc[t] = "L208"
    /\ IF ~Truthy(timestamp_column)
       THEN Return(t, FileReturn(NoTimestamp, <<>>))
       ELSE Goto(t, "L212", [loc[t] EXCEPT !.name = timestamp_column])
    /\ UNCHANGED <<uploaded_df, timestamp_column>>

\* line 212, right-hand side: pd.to_datetime(df[timestamp_column], ...)
W_L212(t) ==
    /\ pc[t] = "L212"
    /\ IF ~HasColumn(loc[t].df, timestamp_column)
       THEN Return(t, FileReturn(LoadError, <<>>))      \* KeyError, caught
       ELSE LET k == ColumnIndex(loc[t].df, timestamp_column)
                rows == loc[t].df.rows
            IN Goto(t, "L212s",
                    [loc[t] EXCEPT !.name = timestamp_column,
                                   !.values = [i \in 1..Len(rows) |-> to_datetime(rows[i].cells[k])]])
    /\ UNCHANGED <<uploaded_df, timestamp_column>>

\* line 212, the store: df[timestamp_column] = ...
W_L212s(t) ==
    /\ pc[t] = "L212s"
    /\ Goto(t, "L213",
            [loc[t] EXCEPT !.name = timestamp_column,
                           !.df = SetColumn(loc[t].df, timestamp_column, loc[t].values)])
    /\ UNCHANGED <<uploaded_df, timestamp_column>>

\* line 213: df.drop_duplicates(subset=[timestamp_column], inplace=True)
W_L213(t) ==
    /\ pc[t] = "L213"
    /\ IF ~HasColumn(loc[t].df, timestamp_column)
       THEN Return(t, FileReturn(LoadError, <<>>))      \* KeyError, caught
       ELSE Goto(t, "L214",
                 [loc[t] EXCEPT !.name = timestamp_column,
                                !.df.rows = drop_duplicates(loc[t].df.rows,
                                                ColumnIndex(loc[t].df, timestamp_column))])
    /\ UNCHANGED <<uploaded_df, timestamp_column>>

\* line 214: df.sort_values(by=timestamp_column, inplace=True)
W_L214(t) ==
    /\ pc[t] = "L214"
    /\ IF ~HasColumn(loc[t].df, timestamp_column)
       THEN Return(t, FileReturn(LoadError, <<>>))      \* KeyError, caught
       ELSE Goto(t, "L217",
                 [loc[t] EXCEPT !.name = timestamp_column,
                                !.df.rows = sort_values(loc[t].df.rows,
                                                ColumnIndex(loc[t].df, timestamp_column))])
    /\ UNCHANGED <<uploaded_df, timestamp_column>>

\* line 217: uploaded_df = df
W_L217(t) ==
    /\ pc[t] = "L217"
    /\ uploaded_df' = loc[t].df
    /\ Goto(t, "L219", loc[t])
    /\ UNCHANGED timestamp_column

\* lines 219-220
W_L219(t) ==
    /\ pc[t] = "L219"
    /\ Return(t, FileReturn(Loaded, NumericColumns(loc[t].column_names, timestamp_column)))
    /\ UNCHANGED <<uploaded_df, timestamp_column>>

U_Begin(t, args) ==
    /\ pc[t] = "idle"
    /\ Goto(t, "L241", [Local0 EXCEPT !.args = args])
    /\ UNCHANGED <<uploaded_df, timestamp_column>>

\* line 241, left operand: uploaded_df.empty
U_L241(t) ==
    /\ pc[t] = "L241"
    /\ IF ~IsBound(uploaded_df) THEN Return(t, Raised(loc[t].args, "NameError"))
       ELSE IF Empty(uploaded_df)
       THEN Return(t, Charts(loc[t].args, NoDataFigure, NoDataFigure))
       ELSE Goto(t, "L241b", [loc[t] EXCEPT !.df = uploaded_df])
    /\ UNCHANGED <<uploaded_df, timestamp_column>>

\* line 241, right operand: not timestamp_column
U_L241b(t) ==
    /\ pc[t] = "L241b"
    /\ IF ~Truthy(timestamp_column)
       THEN Return(t, Charts(loc[t].args, NoDataFigure, NoDataFigure))
       ELSE Goto(t, "L244", [loc[t] EXCEPT !.name = timestamp_column])
    /\ UNCHANGED <<uploaded_df, timestamp_column>>

\* line 244: df = uploaded_df.copy(), and the test of line 247
U_L244(t) ==
    /\ pc[t] = "L244"
    /\ Goto(t, IF Truthy(loc[t].args.start_date) /\ Truthy(loc[t].args.end_date)
               THEN "L248" ELSE "L252",
            [loc[t] EXCEPT !.df = uploaded_df, !.name = Unread])
    /\ UNCHANGED <<uploaded_df, timestamp_column>>

\* line 248, left comparison: df[timestamp_column] >= pd.to_datetime(start_date)
U_L248(t) ==
    /\ pc[t] = "L248"
    /\ IF ~HasColumn(loc[t].df, timestamp_column)
       THEN Return(t, Raised(loc[t].args, "KeyError"))
       ELSE LET k == ColumnIndex(loc[t].df, timestamp_column)
                rows == loc[t].df.rows
            IN Goto(t, "L248b",
                    [loc[t] EXCEPT !.name = timestamp_column,
                                   !.values = [i \in 1..Len(rows) |->
                                       Geq(rows[i].cells[k], date_to_datetime(loc[t].args.start_date))]])
    /\ UNCHANGED <<uploaded_df, timestamp_column>>

\* line 248, right comparison and the selection
U_L248b(t) ==
    /\ pc[t] = "L248b"
    /\ IF ~HasColumn(loc[t].df, timestamp_column)
       THEN Return(t, Raised(loc[t].args, "KeyError"))
       ELSE LET k == ColumnIndex(loc[t].df, timestamp_column)
                rows == loc[t].df.rows
                kept == {i \in 1..Len(rows) :
                            /\ loc[t].values[i]
                            /\ Leq(rows[i].cells[k], date_to_datetime(loc[t].args.end_date))}
            IN Goto(t, "L252",
                    [loc[t] EXCEPT !.name = timestamp_column,
                                   !.df.rows = SelectSeq(rows, LAMBDA r :
                                       \E i \in kept : rows[i] = r)])
    /\ UNCHANGED <<uploaded_df, timestamp_column>>

\* lines 251-254
U_L252(t) ==
    /\ pc[t] = "L252"
    /\ IF ~Truthy(loc[t].args.column1)
       THEN Goto(t, "L258", [loc[t] EXCEPT !.fig1 = NoDataFigure])
       ELSE IF LineRaises(loc[t].df, timestamp_column, loc[t].args.column1)
       THEN Return(t, Raised(loc[t].args, "ValueError"))
       ELSE Goto(t, "L258",
                 [loc[t] EXCEPT !.name = timestamp_column,
                                !.fig1 = Line(loc[t].df, timestamp_column,
                                              loc[t].args.column1, "Chart 1")])
    /\ UNCHANGED <<uploaded_df, timestamp_column>>

\* lines 257-262
U_L258(t) ==
    /\ pc[t] = "L258"
    /\ IF ~Truthy(loc[t].args.column2)
       THEN Return(t, Charts(loc[t].args, loc[t].fig1, NoDataFigure))
       ELSE IF LineRaises(loc[t].df, timestamp_column, loc[t].args.column2)
       THEN Return(t, Raised(loc[t].args, "ValueError"))
       ELSE Return(t, Charts(loc[t].args, loc[t].fig1,
                             Line(loc[t].df, timestamp_column, loc[t].args.column2, "Chart 2")))
    /\ UNCHANGED <<uploaded_df, timestamp_column>>

InitThreads ==
    /\ InitSession
    /\ pc = [t \in Writers \cup Readers |-> "idle"]
    /\ loc = [t \in Writers \cup Readers |-> Local0]
    /\ input = Unused /\ output = Unused

NextThreads ==
    \/ \E t \in Writers, file \in ThreadFiles : W_Begin(t, file)
    \/ \E t \in Writers : W_L207(t)
    \/ \E t \in Writers : W_L208(t)
    \/ \E t \in Writers : W_L212(t)
    \/ \E t \in Writers : W_L212s(t)
    \/ \E t \in Writers : W_L213(t)
    \/ \E t \in Writers : W_L214(t)
    \/ \E t \in Writers : W_L217(t)
    \/ \E t \in Writers : W_L219(t)
    \/ \E t \in Readers, args \in ThreadArgs : U_Begin(t, args)
    \/ \E t \in Readers : U_L241(t)
    \/ \E t \in Readers : U_L241b(t)
    \/ \E t \in Readers : U_L244(t)
    \/ \E t \in Readers : U_L248(t)
    \/ \E t \in Readers : U_L248b(t)
    \/ \E t \in Readers : U_L252(t)
    \/ \E t \in Readers : U_L258(t)

SpecThreads == InitThreads /\ [][NextThreads]_vars

(***************************************************************************)
(* Properties                                                              *)
(***************************************************************************)
Distinct(seq) == \A i, j \in 1..Len(seq) : i # j => seq[i] # seq[j]
Recognized(name) == name \in {"Timestamp", UTLabel}
Resolved == IsBound(uploaded_df) /\ ~Empty(uploaded_df) /\ Truthy(timestamp_column)

\* C1: a call of process_selected_file that ends in a status other than the
\* loaded-file confirmation leaves uploaded_df and timestamp_column as they
\* were before the call.
C1_FailureLeavesSessionUntouched ==
    [][(ret'.kind = "file" /\ ret'.status # Loaded)
        => (uploaded_df' = uploaded_df /\ timestamp_column' = timestamp_column)]_vars

\* C2: the list extract_column_names returns holds no two equal entries.
C2_NamesUnique == output.done => Distinct(output.value)

\* The reconciled names and the parsed rows of a selected file whose data
\* section was found.
HasDataSection(file) == file.selected /\ file.ok /\ DataStart(file.lines) # 0
NamesOf(file) ==
    LET start == DataStart(file.lines)
    IN Reconcile(extract_column_names(file.lines), FieldCount(file.lines[start]))
ParsedRows(file) ==
    LET start == DataStart(file.lines)
    IN read_csv(SubSeq(file.lines, start, Len(file.lines)), NamesOf(file)).rows

\* a sorts no later than b: ascending instants, an unparseable value (NaT) last
NoLater(a, b) == b.kind = "NaT" \/ (a.kind = "datetime" /\ b.kind = "datetime" /\ a.t <= b.t)

\* C3: after a successful process_selected_file, uploaded_df holds exactly one
\* row per distinct normalized timestamp of the parsed rows, that row is the
\* first parsed row with that timestamp, and the rows are in non-decreasing
\* timestamp order (a row whose timestamp did not parse comes last).
C3_OneRowPerTimestampSorted ==
    (output = "selected" /\ ret.status = Loaded) =>
        LET parsed == ParsedRows(input)
            k == ColumnIndex(uploaded_df, timestamp_column)
            stamp(i) == to_datetime(parsed[i].cells[k])
            first(i) == \A j \in 1..(i - 1) : stamp(j) # stamp(i)
            normalized(i) == [parsed[i] EXCEPT !.cells[k] = stamp(i)]
            rows == uploaded_df.rows
        IN /\ \A i \in 1..Len(parsed) :
                first(i) => Cardinality({m \in 1..Len(rows) : rows[m] = normalized(i)}) = 1
           /\ \A m \in 1..Len(rows) :
                \E i \in 1..Len(parsed) : first(i) /\ rows[m] = normalized(i)
           /\ \A m, n \in 1..Len(rows) : m # n => rows[m].cells[k] # rows[n].cells[k]
           /\ \A m \in 1..(Len(rows) - 1) : NoLater(rows[m].cells[k], rows[m + 1].cells[k])

C3_Witness ==
    /\ output = "selected" /\ ret.kind = "file" /\ ret.status = Loaded
    /\ Len(ParsedRows(input)) = 3
    /\ Len(uploaded_df.rows) = 2
    /\ uploaded_df.rows[1].index = 1 /\ uploaded_df.rows[2].index = 0

\* the positions of the recognized labels among the reconciled names
Candidates(names) == {i \in 1..Len(names) : Recognized(names[i])}
TableBuilt(file) == HasDataSection(file) /\ Distinct(NamesOf(file))

\* C4 as stated: with more than one recognized label among the reconciled
\* names the chosen timestamp column is the first in allow-list order, and
\* with none the status is the no-timestamp-column status.
C4_AllowListOrderWins ==
    (output = "selected" /\ TableBuilt(input)) =>
        LET names == NamesOf(input)
        IN /\ Cardinality(Candidates(names)) > 1 =>
                timestamp_column =
                    possible_timestamp_columns[CHOOSE a \in 1..2 :
                        /\ InList(possible_timestamp_columns[a], names)
                        /\ \A b \in 1..(a - 1) : ~InList(possible_timestamp_columns[b], names)]
           /\ Candidates(names) = {} => ret.status = NoTimestamp

\* C4 as amended: the chosen timestamp column is the recognized label that
\* comes first in the order of the file's columns; with none the status is
\* the no-timestamp-column status, or the load error when the names are not
\* distinct, and never a success.
C4_FirstColumnWins ==
    (output = "selected" /\ HasDataSection(input)) =>
        LET names == NamesOf(input)
            c == Candidates(names)
        IN IF ~Distinct(names) THEN ret.status = LoadError
           ELSE IF c = {} THEN ret.status = NoTimestamp /\ timestamp_column = None
           ELSE /\ ret.status = Loaded
                /\ \E i \in c : /\ timestamp_column = names[i]
                                /\ \A j \in c : i <= j

C4_Witness ==
    /\ output = "selected" /\ TableBuilt(input)
    /\ NamesOf(input) = <<UTLabel, "Timestamp">>
    /\ timestamp_column = UTLabel
    /\ ret.status = Loaded

\* The rows of the dataset a chart is drawn from.
InRange(cell, lo, hi) ==
    /\ cell.kind = "datetime"
    /\ Truthy(lo) => cell.t >= DateTable[lo]
    /\ Truthy(hi) => cell.t <= DateTable[hi]
RowsInRange(lo, hi) ==
    LET k == ColumnIndex(uploaded_df, timestamp_column)
    IN SelectSeq(uploaded_df.rows, LAMBDA r : InRange(r.cells[k], lo, hi))

\* C5 as stated: a chart of a column of the resolved dataset holds exactly the
\* rows within [start_date, end_date], an absent bound being unbounded.
C5_AbsentBoundUnbounded ==
    (ret.kind = "charts" /\ Resolved /\ ret.raised = None) =>
        LET a == ret.args
            want == IF Truthy(a.start_date) \/ Truthy(a.end_date)
                    THEN RowsInRange(a.start_date, a.end_date)
                    ELSE uploaded_df.rows
        IN /\ (Truthy(a.column1) /\ HasColumn(uploaded_df, a.column1)) => ret.fig1.rows = want
           /\ (Truthy(a.column2) /\ HasColumn(uploaded_df, a.column2)) => ret.fig2.rows = want

\* C5 as amended: with both bounds given a chart holds exactly the rows within
\* [start_date, end_date] inclusive; with either bound absent it holds every
\* row of the dataset.
C5_BothBoundsOrNoFilter ==
    (ret.kind = "charts" /\ Resolved /\ ret.raised = None) =>
        LET a == ret.args
            want == IF Truthy(a.start_date) /\ Truthy(a.end_date)
                    THEN RowsInRange(a.start_date, a.end_date)
                    ELSE uploaded_df.rows
        IN /\ (Truthy(a.column1) /\ HasColumn(uploaded_df, a.column1)) => ret.fig1.rows = want
           /\ (Truthy(a.column2) /\ HasColumn(uploaded_df, a.column2)) => ret.fig2.rows = want

C5_Witness ==
    /\ ret.kind = "charts" /\ Resolved /\ ret.raised = None
    /\ ret.args.column1 = "P"
    /\ ret.args.start_date = "2023-01-02" /\ ret.args.end_date = "2023-01-02"
    /\ Len(uploaded_df.rows) = 2
    /\ Len(ret.fig1.rows) = 1
    /\ ret.fig1.rows[1].cells[1] = Datetime(4)

\* a column argument that names no column of the resolved dataset
Unknown(column) == Truthy(column) /\ ~HasColumn(uploaded_df, column)

\* C6: update_charts with a column that is no column of the resolved dataset
\* ends neither in an exception that escapes the callback nor in the
\* placeholder figure for that column.
C6_UnknownColumnRejected ==
    (ret.kind = "charts" /\ Resolved) =>
        /\ Unknown(ret.args.column1) => (ret.raised = None /\ ret.fig1 # NoDataFigure)
        /\ Unknown(ret.args.column2) => (ret.raised = None /\ ret.fig2 # NoDataFigure)

\* C7: in every session state, update_charts with an absent column returns the
\* placeholder figure for that chart and raises nothing.
C7_AbsentColumnPlaceholder ==
    ret.kind = "charts" =>
        /\ ~Truthy(ret.args.column1) => (ret.raised = None /\ ret.fig1 = NoDataFigure)
        /\ ~Truthy(ret.args.column2) => (ret.raised = None /\ ret.fig2 = NoDataFigure)

\* C9: with fewer declared names than tokens in the first data line the
\* reconciled list is the declared names followed by Unnamed_i for i from the
\* declared length to the token count less one; otherwise it is the declared
\* names unchanged.
C9_Reconciled ==
    output.done =>
        LET names == input.column_names
            n == Len(names)
            count == Len(input.sample_row.tokens)
            out == output.value
        IN /\ \A i \in 1..n : i \in DOMAIN out /\ out[i] = names[i]
           /\ n < count =>
                /\ Len(out) = count
                /\ \A i \in n..(count - 1) : out[i + 1] = "Unnamed_" \o ToString(i)
           /\ n >= count => out = names

C9_Witness ==
    /\ output.done
    /\ Len(input.column_names) = 1
    /\ Len(input.sample_row.tokens) = 3
    /\ output.value = <<input.column_names[1], "Unnamed_1", "Unnamed_2">>

\* C10: list_items returns an entry exactly for the targets that begin with
\* "./" and lead neither to a parent directory, nor to a javascript: link, nor
\* into the operational-files folder.
IntoOperationFiles(href) == HasPrefix(href, <<".", "/", "operationfiles">>)
Qualifies(href) ==
    /\ HasPrefix(href, <<".", "/">>)
    /\ ~HasPrefix(href, <<".", ".", "/">>)
    /\ ~HasPrefix(href, <<"javascript">>)
    /\ ~IntoOperationFiles(href)
C10_OnlyQualifyingEntries ==
    (output.done /\ input.ok) =>
        Len(output.value) = Cardinality({i \in 1..Len(input.hrefs) : Qualifies(input.hrefs[i])})

\* C8: whenever a callback reads timestamp_column next to a table, the name
\* it reads is the timestamp column of the resolution that produced the
\* table.
C8_NoTornRead ==
    \A t \in DOMAIN loc :
        loc[t].name # Unread => loc[t].name = ResolveTimestampColumn(loc[t].df.columns)

====
